---- MODULE Spec2Model ----
(***************************************************************************)
(* Model of the resilient request hook useApi                              *)
(* (src/frontend/src/hooks/useApi.ts).                                     *)
(*                                                                         *)
(* One hook instance owns the React state data / isLoading / error /       *)
(* retryCount.  A call chain is one invocation of execute by a caller      *)
(* plus the recursive invocations execute makes of itself.  execute is an  *)
(* async function: it suspends at the fetch (pc = "fetch") and at the      *)
(* retry timer (pc = "delay"); everything between two suspension points    *)
(* runs in one event-loop turn and is one action here.                     *)
(*                                                                         *)
(* execute is memoised with useCallback: the function a caller invokes     *)
(* closes over the retryCount of the render that created it, and the       *)
(* recursive call at line 90 goes through the same closure (the binding    *)
(* `execute` inside the callback is the memoised function itself).  The    *)
(* retryCount a chain compares with maxRetries is therefore the value the  *)
(* state had when the caller invoked execute (closure[c]), not the         *)
(* current state.                                                          *)
(*                                                                         *)
(* Beside the hook the module holds its callers and the pages around it:   *)
(* the StockChart effect that calls execute (components/dashboard/         *)
(* StockChart.tsx), the token cookie with the logout controls and the      *)
(* middleware (contexts/AuthContext.tsx, app/layout.tsx, app/history/      *)
(* page.tsx, app/trading/page.tsx, middleware.ts), and handleSubmit of the *)
(* trading page (app/trading/page.tsx).                                    *)
(***************************************************************************)
EXTENDS Integers, FiniteSets, Sequences, TLC

\* ---------------------------------------------------------------- bounds
\* maxRetries is drawn from 0..MaxMaxRetries
MaxMaxRetries == 2
\* the counters retryCount, requests, delays and leaked saturate here
MaxCount == 4

\* URL templates have at most MaxUrlLen characters
MaxUrlLen == 5

\* the runs of the effect of one StockChart that are followed
MaxRuns == 2

\* request paths have at most MaxPathLen pieces
MaxPathLen == 4

\* call chains of one hook instance
Chains == {"c1", "c2"}

\* the caller that awaits each call before it makes the next
Sequential == {"c1"}

\* ---------------------------------------------------------------- values
Min(a, b) == IF a < b THEN a ELSE b

Inc(n) == Min(n + 1, MaxCount)

\* `undefined` status of an Error that is not an APIError
NoStatus == 0

Statuses == {200, 404, 500, 503}

Payloads == {"P1", "P2"}

\* data === null
NoData == "null"

\* error === null
NoError == [message |-> "null", status |-> NoStatus, code |-> "null"]

\* JSON field that is missing from the body
Absent == "undefined"

Details == {Absent, "", "Bad request"}

Codes == {Absent, "", "E_CODE"}

ContentTypes == {"application/json", "application/json; charset=utf-8",
                 "text/plain", "none"}

\* contentType.includes('application/json')
IncludesJson(ct) == ct \in {"application/json", "application/json; charset=utf-8"}

\* messages of the value fetch rejects with; the empty one is a rejection
\* value without a message
RejectionMessages == {"Failed to fetch", ""}

\* what the backend can answer to one fetch: a transport failure (net), or
\* a response with a status, a content-type header and a body that parses
\* as JSON (an object with optional detail and code fields) or does not
Responses ==
    { [net |-> TRUE, message |-> m, status |-> NoStatus, ctype |-> "none",
       parses |-> FALSE, payload |-> NoData, detail |-> Absent, code |-> Absent] :
         m \in RejectionMessages }
    \cup
    { [net |-> FALSE, message |-> "", status |-> s, ctype |-> ct, parses |-> p,
       payload |-> IF s = 200 THEN pl ELSE NoData,
       detail |-> IF s = 200 THEN Absent ELSE d,
       code |-> IF s = 200 THEN Absent ELSE cd] :
         s \in Statuses, ct \in ContentTypes, p \in BOOLEAN,
         pl \in Payloads, d \in Details, cd \in Codes }

\* no response received
NoResponse ==
    [net |-> TRUE, message |-> "", status |-> NoStatus, ctype |-> "none",
     parses |-> FALSE, payload |-> NoData, detail |-> Absent, code |-> Absent]

\* response.ok
Ok(resp) == resp.status >= 200 /\ resp.status <= 299

\* variant: the fallback is used for a missing field only
OrElseMissing(x, fallback) == IF x = Absent THEN fallback ELSE x

\* x || fallback on a string field
OrElse(x, fallback) == IF x = Absent \/ x = "" THEN fallback ELSE x

\* fetch rejects with a TypeError
NetworkError == [message |-> "Failed to fetch", status |-> NoStatus, code |-> Absent]

\* fetch rejects with the value the transport failure carries
Rejection(resp) == [message |-> resp.message, status |-> NoStatus, code |-> Absent]

\* new Error('Invalid response format')
InvalidFormat == [message |-> "Invalid response format", status |-> NoStatus, code |-> Absent]

\* response.json() rejects with a SyntaxError
ParseError == [message |-> "Unexpected token", status |-> NoStatus, code |-> Absent]

HttpError(resp) ==
    [message |-> OrElse(resp.detail, "An error occurred"),
     status |-> resp.status,
     code |-> OrElse(resp.code, "UNKNOWN_ERROR")]

\* the error thrown inside the try block for a response, NoError when the
\* try block runs to its return
Thrown(resp) ==
    IF resp.net THEN Rejection(resp)
    ELSE IF ~IncludesJson(resp.ctype) THEN InvalidFormat
    ELSE IF ~resp.parses THEN ParseError
    ELSE IF ~Ok(resp) THEN HttpError(resp)
    ELSE NoError

\* variant: client errors are retried as well
RetryableFrom400(apiError) ==
    (apiError.status # NoStatus /\ apiError.status >= 400) \/ apiError.status = NoStatus

\* (apiError.status && apiError.status >= 500) || !apiError.status
Retryable(apiError) ==
    (apiError.status # NoStatus /\ apiError.status >= 500) \/ apiError.status = NoStatus

\* retryCount < maxRetries, on the retryCount of the closure
BudgetLeft(captured, limit) == captured < limit

\* ---------------------------------------------------------------- URLs
\* A string is a sequence of characters.
UrlChars == {"/", ":", "a", "b"}

\* characters a placeholder name is made of
NameChars == {"a", "b"}

Strings(n) == UNION { [1..k -> UrlChars] : k \in 0..n }

\* pathParams as Object.entries enumerates it, in insertion order; an
\* undefined pathParams and an empty one both are the empty sequence.  The
\* values contain no '$', which replace() would interpret.
PathParams ==
    { <<>>,
      << [key |-> <<"a">>, value |-> <<"1">>] >>,
      << [key |-> <<"a", "b">>, value |-> <<"2">>] >>,
      << [key |-> <<"a">>, value |-> <<"1">>], [key |-> <<"a", "b">>, value |-> <<"2">>] >>,
      << [key |-> <<"a", "b">>, value |-> <<"2">>], [key |-> <<"a">>, value |-> <<"1">>] >> }

\* position of the first occurrence of pat in s at or after i, 0 if none
RECURSIVE IndexFrom(_, _, _)
IndexFrom(s, pat, i) ==
    IF i + Len(pat) - 1 > Len(s) THEN 0
    ELSE IF SubSeq(s, i, i + Len(pat) - 1) = pat THEN i
    ELSE IndexFrom(s, pat, i + 1)

\* finalUrl.replace(`:${key}`, value) with a string pattern (line 41): the
\* first occurrence only
ReplaceFirst(s, pat, val) ==
    LET i == IndexFrom(s, pat, 1)
    IN  IF i = 0 THEN s
        ELSE SubSeq(s, 1, i - 1) \o val \o SubSeq(s, i + Len(pat), Len(s))

\* `:${key}`
Placeholder(key) == <<":">> \o key

\* lines 38-43: one replace per entry of pathParams, in order
RECURSIVE ResolveUrl(_, _)
ResolveUrl(url, entries) ==
    IF entries = <<>> THEN url
    ELSE ResolveUrl(ReplaceFirst(url, Placeholder(entries[1].key), entries[1].value),
                    Tail(entries))

\* ---------------------------------------------------------------- calls
\* body argument; undefined and 0 are falsy
NoBody == "undefined"

FalsyBodies == {NoBody, "0"}

\* the arguments callers pass to execute
CallArgs ==
    { [url |-> <<"/", ":", "a">>, method |-> "GET", body |-> NoBody,
       pathParams |-> << [key |-> <<"a">>, value |-> <<"1">>] >>],
      [url |-> <<"/", "b">>, method |-> "POST", body |-> "order",
       pathParams |-> <<>>],
      [url |-> <<"/", "b">>, method |-> "PUT", body |-> "0",
       pathParams |-> <<>>] }

NoArgs == [url |-> <<>>, method |-> "GET", body |-> NoBody, pathParams |-> <<>>]

\* body ? JSON.stringify(body) : undefined (line 56)
SentBody(body) == IF body \in FalsyBodies THEN <<>> ELSE <<"JSON", body>>

\* lines 37-57: the request fetch is called with
Request(a) ==
    [url |-> ResolveUrl(a.url, a.pathParams), method |-> a.method,
     body |-> SentBody(a.body)]

NoRequest == [url |-> <<>>, method |-> "GET", body |-> <<>>]

\* variant: the recursive call forgets the path substitutions
RecursiveArgsNoParams(a) == [a EXCEPT !.pathParams = <<>>]

\* execute(url, method, body, pathParams) in the retry branch (line 90)
RecursiveArgs(a) == a

NoResolution == [target |-> <<>>, params |-> <<>>, url |-> <<>>, done |-> FALSE]

NoCatch == [resp |-> NoResponse, error |-> NoError, done |-> FALSE]

NoResult == [kind |-> "none", payload |-> NoData, error |-> NoError]

\* variant: the start of an invocation resets data as well
StartDataReset(prev) == NoData

\* lines 32-33: the start of an invocation writes isLoading and error only
StartData(prev) == prev

\* setError(null) at the start of an invocation (line 33)
ClearError(prev) == NoError

\* variant: the notification always shows the generic text
ErrorTextGeneric(e) == "An error occurred"

\* apiError.message || 'An error occurred' (line 95)
ErrorText(e) == OrElse(e.message, "An error occurred")

\* variant: the finally block leaves the in-flight flag alone
KeepLoading(prev) == prev

\* variant: the catch block does not store the error
DropError(e) == NoError

\* setError(apiError) in the catch block (line 80)
StoreError(e) == e

\* setIsLoading(false) in the finally block (line 104)
ClearLoading(prev) == FALSE

\* variant: success leaves the retry counter alone
KeepRetryCount(prev) == prev

\* setRetryCount(0) on success (line 76)
ResetRetryCount(prev) == 0

\* ---------------------------------------------------------------- state
VARIABLES
    maxRetries,        \* option
    showLoadingToast,  \* option
    showErrorToast,    \* option
    data,              \* useState: last successful payload
    isLoading,         \* useState: in-flight flag
    error,             \* useState: last error
    retryCount,        \* useState: retry counter
    pc,                \* per chain: "idle", "fetch", "delay", "done"
    closure,           \* per chain: retryCount captured by the execute closure
    args,              \* per chain: arguments of the current invocation
    sent,              \* per chain: the request of its latest fetch
    first,             \* per chain: the request of its first fetch
    loadingToastId,    \* per chain: the current invocation holds a notification handle
    toast,             \* per chain: notification of the current invocation:
                       \*   "none", "loading", "error", "dismissed"
    toastText,         \* per chain: text that notification shows
    leaked,            \* per chain: notifications of its earlier invocations still loading
    errorToasts,       \* per chain: calls of toast.error
    apiError,          \* per chain: error caught by the current invocation
    result,            \* per chain: what the caller's promise settled with
    requests,          \* per chain: HTTP requests issued
    delays,            \* per chain: retryDelay waits started
    all503,            \* per chain: every response so far was a 503 with a JSON body
    sawNonJson200,     \* per chain: some response was a 200 without JSON content type
    resolution,        \* a URL resolution on its own: target, pathParams, finalUrl
    caught,            \* a response handling on its own: response, error thrown
    lastIssued,        \* the chain whose call was issued last, "none" before any
    lastSettled,       \* the chain that settled last, "none" before any
    mounted,           \* the view that owns the hook instance is on screen
    chart,             \* StockChart: its inputs and the runs of its effect
    site,              \* the browser and the middleware: token, navigation
    order              \* trading page: the order form and handleSubmit

vars == <<maxRetries, showLoadingToast, showErrorToast, data, isLoading, error,
          retryCount, pc, closure, args, sent, first, loadingToastId, toast, toastText, leaked,
          errorToasts,
          apiError, result, requests, delays, all503, sawNonJson200,
          resolution, caught, lastIssued, lastSettled,
          mounted, chart, site, order>>

\* the state of the hook instance and of its callers
hook == <<maxRetries, showLoadingToast, showErrorToast, data, isLoading, error,
          retryCount, pc, closure, args, sent, first, loadingToastId, toast,
          toastText, leaked, errorToasts, apiError, result, requests, delays,
          all503, sawNonJson200, resolution, caught, lastIssued, lastSettled>>

\* the state outside the hook instance
pages == <<mounted, chart, site, order>>

options == <<maxRetries, showLoadingToast, showErrorToast>>

Running(c) == pc[c] \in {"fetch", "delay"}

\* variant: a chain stops when its view is torn down
CancelledOnTeardown(m) == ~m

\* lines 50-57 and 89-90: fetch is called without an abort signal and the
\* retry timer is never cleared, so nothing stops a chain once it runs
Cancelled(m) == FALSE

\* lines 46-48: toast.loading when enabled
OpenToast(enabled) == IF enabled THEN "loading" ELSE "none"

\* line 47: toast.loading('Loading...')
OpenText(enabled) == IF enabled THEN "Loading..." ELSE ""

\* lines 94-97: toast.error sets the text of the notification
CatchText(text, e, errorEnabled) == IF errorEnabled THEN ErrorText(e) ELSE text

\* variant: the test of showErrorToast is inverted
CatchToastInverted(t, hasId, errorEnabled) ==
    IF ~errorEnabled THEN "error"
    ELSE IF hasId THEN "dismissed"
    ELSE t

\* lines 94-100: toast.error(message, {id: loadingToastId}) turns the
\* notification with that id into an error notification, or creates one;
\* otherwise toast.dismiss(loadingToastId)
CatchToast(t, hasId, errorEnabled) ==
    IF errorEnabled THEN "error"
    ELSE IF hasId THEN "dismissed"
    ELSE t

\* lines 105-107: toast.dismiss(loadingToastId)
FinallyToast(t, hasId, errorEnabled) ==
    IF hasId /\ ~errorEnabled THEN "dismissed" ELSE t

\* ------------------------------------------------ the state of the pages
\* StockChart.tsx lines 72-101: the chart before its first effect
NoChart ==
    [symbol |-> "AAPL", timeframe |-> "1D", ran |-> FALSE, runs |-> 0, deps |-> <<>>,
     trigger |-> [c \in Chains |-> "none"]]

\* a browser that holds no token and has requested nothing
NoSite ==
    [token |-> Absent, stored |-> Absent, pathname |-> <<>>, cookieSent |-> Absent,
     response |-> [kind |-> "none", to |-> <<>>], redirects |-> 0,
     logout |-> "none"]

\* trading/page.tsx lines 58-64: the trading page before any submission
NoOrder ==
    [symbol |-> "", quantity |-> "", orderType |-> "buy", stage |-> "idle",
     placed |-> FALSE, error |-> <<>>, errorToasts |-> 0, successToasts |-> 0,
     submitLoading |-> FALSE, balance |-> "stale", positions |-> "stale"]

PagesInit ==
    /\ mounted = TRUE
    /\ chart = NoChart
    /\ site = NoSite
    /\ order = NoOrder

\* lines 13-18: the options of the instance
OptionsInit ==
    /\ maxRetries \in 0..MaxMaxRetries
    /\ showLoadingToast \in BOOLEAN
    /\ showErrorToast \in BOOLEAN

\* lines 20-23: the state after the first render, no call made
StateInit ==
    /\ data = NoData
    /\ isLoading = FALSE
    /\ error = NoError
    /\ retryCount = 0
    /\ pc = [c \in Chains |-> "idle"]
    /\ closure = [c \in Chains |-> 0]
    /\ args = [c \in Chains |-> NoArgs]
    /\ sent = [c \in Chains |-> NoRequest]
    /\ first = [c \in Chains |-> NoRequest]
    /\ loadingToastId = [c \in Chains |-> FALSE]
    /\ toast = [c \in Chains |-> "none"]
    /\ toastText = [c \in Chains |-> ""]
    /\ leaked = [c \in Chains |-> 0]
    /\ errorToasts = [c \in Chains |-> 0]
    /\ apiError = [c \in Chains |-> NoError]
    /\ result = [c \in Chains |-> NoResult]
    /\ requests = [c \in Chains |-> 0]
    /\ delays = [c \in Chains |-> 0]
    /\ all503 = [c \in Chains |-> TRUE]
    /\ sawNonJson200 = [c \in Chains |-> FALSE]
    /\ lastIssued = "none"
    /\ lastSettled = "none"
    /\ PagesInit

Init ==
    /\ OptionsInit
    /\ StateInit
    /\ resolution = NoResolution
    /\ caught = NoCatch

\* ---------------------------------------------------------------- actions

\* A caller invokes execute (lines 32-57): the invocation runs up to the
\* await of fetch.  The caller uses the execute of the latest render, whose
\* closure holds the current retryCount.
ExecuteWith(c, a) ==
    /\ ~Running(c)
    /\ lastIssued' = c
    /\ pc' = [pc EXCEPT ![c] = "fetch"]
    /\ closure' = [closure EXCEPT ![c] = retryCount]
    /\ args' = [args EXCEPT ![c] = a]
    /\ sent' = [sent EXCEPT ![c] = Request(a)]
    /\ first' = [first EXCEPT ![c] = Request(a)]
    /\ isLoading' = TRUE
    /\ error' = ClearError(error)
    /\ loadingToastId' = [loadingToastId EXCEPT ![c] = showLoadingToast]
    /\ toast' = [toast EXCEPT ![c] = OpenToast(showLoadingToast)]
    /\ toastText' = [toastText EXCEPT ![c] = OpenText(showLoadingToast)]
    /\ leaked' = [leaked EXCEPT ![c] = 0]
    /\ errorToasts' = [errorToasts EXCEPT ![c] = 0]
    /\ apiError' = [apiError EXCEPT ![c] = NoError]
    /\ result' = [result EXCEPT ![c] = NoResult]
    /\ requests' = [requests EXCEPT ![c] = 1]
    /\ delays' = [delays EXCEPT ![c] = 0]
    /\ all503' = [all503 EXCEPT ![c] = TRUE]
    /\ sawNonJson200' = [sawNonJson200 EXCEPT ![c] = FALSE]
    /\ data' = StartData(data)
    /\ UNCHANGED <<options, retryCount, resolution, caught, lastSettled>>

Execute(c) == \E a \in CallArgs : ExecuteWith(c, a) /\ UNCHANGED pages

\* history of the responses a chain received
Observe(c, resp) ==
    /\ all503' = [all503 EXCEPT ![c] =
                     @ /\ ~resp.net /\ resp.status = 503
                       /\ IncludesJson(resp.ctype) /\ resp.parses]
    /\ sawNonJson200' = [sawNonJson200 EXCEPT ![c] =
                     @ \/ (~resp.net /\ resp.status = 200 /\ ~IncludesJson(resp.ctype))]

\* lines 75-77 and 103-107: the try block returns the payload
Succeed(c, resp) ==
    /\ Thrown(resp) = NoError
    /\ data' = resp.payload
    /\ retryCount' = ResetRetryCount(retryCount)
    /\ isLoading' = ClearLoading(isLoading)
    /\ toast' = [toast EXCEPT ![c] = FinallyToast(@, loadingToastId[c], showErrorToast)]
    /\ result' = [result EXCEPT ![c] =
                          [kind |-> "ok", payload |-> resp.payload, error |-> NoError]]
    /\ pc' = [pc EXCEPT ![c] = "done"]
    /\ lastSettled' = c
    /\ UNCHANGED <<error, apiError, errorToasts, delays, toastText>>

\* lines 78-89: the catch block stores the error, finds it retryable with
\* budget left, increments retryCount and awaits the retry timer
ScheduleRetry(c, resp) ==
    /\ Thrown(resp) # NoError
    /\ Retryable(Thrown(resp))
    /\ BudgetLeft(closure[c], maxRetries)
    /\ error' = StoreError(Thrown(resp))
    /\ apiError' = [apiError EXCEPT ![c] = Thrown(resp)]
    /\ retryCount' = Inc(retryCount)
    /\ delays' = [delays EXCEPT ![c] = Inc(@)]
    /\ pc' = [pc EXCEPT ![c] = "delay"]
    /\ UNCHANGED <<data, isLoading, toast, toastText, errorToasts, result, lastSettled>>

\* lines 78-86, 94-107: the catch block stores the error, does not retry,
\* notifies, rethrows; the finally block clears the in-flight flag
Fail(c, resp) ==
    /\ Thrown(resp) # NoError
    /\ ~(Retryable(Thrown(resp)) /\ BudgetLeft(closure[c], maxRetries))
    /\ error' = StoreError(Thrown(resp))
    /\ apiError' = [apiError EXCEPT ![c] = Thrown(resp)]
    /\ errorToasts' = [errorToasts EXCEPT ![c] =
          IF CatchToast(toast[c], loadingToastId[c], showErrorToast) = "error"
          THEN Inc(@) ELSE @]
    /\ toast' = [toast EXCEPT ![c] =
          FinallyToast(CatchToast(@, loadingToastId[c], showErrorToast),
                       loadingToastId[c], showErrorToast)]
    /\ toastText' = [toastText EXCEPT ![c] = CatchText(@, Thrown(resp), showErrorToast)]
    /\ isLoading' = ClearLoading(isLoading)
    /\ result' = [result EXCEPT ![c] =
                          [kind |-> "err", payload |-> NoData, error |-> Thrown(resp)]]
    /\ pc' = [pc EXCEPT ![c] = "done"]
    /\ lastSettled' = c
    /\ UNCHANGED <<data, retryCount, delays>>

\* The fetch of chain c completes with resp (lines 50-108).
Respond(c, resp) ==
    /\ pc[c] = "fetch"
    /\ ~Cancelled(mounted)
    /\ Observe(c, resp)
    /\ \/ Succeed(c, resp)
       \/ ScheduleRetry(c, resp)
       \/ Fail(c, resp)
    /\ UNCHANGED <<pages, options, closure, args, sent, first, loadingToastId, leaked,
                   requests, resolution, caught, lastIssued>>

\* The retry timer fires (lines 89-90, 32-57, 103-107): the invocation calls
\* execute again, which runs up to its fetch, and then runs its own finally
\* block, because the promise of the recursive call is returned, not awaited.
Retry(c) ==
    /\ pc[c] = "delay"
    /\ ~Cancelled(mounted)
    /\ args' = [args EXCEPT ![c] = RecursiveArgs(@)]
    /\ sent' = [sent EXCEPT ![c] = Request(RecursiveArgs(args[c]))]
    /\ error' = ClearError(error)
    /\ requests' = [requests EXCEPT ![c] = Inc(@)]
    /\ leaked' = [leaked EXCEPT ![c] =
          IF FinallyToast(toast[c], loadingToastId[c], showErrorToast) = "loading"
          THEN Inc(@) ELSE @]
    /\ loadingToastId' = [loadingToastId EXCEPT ![c] = showLoadingToast]
    /\ toast' = [toast EXCEPT ![c] = OpenToast(showLoadingToast)]
    /\ toastText' = [toastText EXCEPT ![c] = OpenText(showLoadingToast)]
    /\ apiError' = [apiError EXCEPT ![c] = NoError]
    /\ isLoading' = ClearLoading(TRUE)
    /\ pc' = [pc EXCEPT ![c] = "fetch"]
    /\ data' = StartData(data)
    /\ UNCHANGED <<pages, options, retryCount, closure, first, result, errorToasts,
                   delays, all503, sawNonJson200, resolution, caught,
                   lastIssued, lastSettled>>

\* one caller, which awaits each call before it makes the next
Next ==
    \/ \E c \in Sequential : Execute(c)
    \/ \E c \in Sequential, resp \in Responses : Respond(c, resp)
    \/ \E c \in Sequential : Retry(c)

Spec == Init /\ [][Next]_vars

\* every request is answered and every retry timer fires
Fairness ==
    \A c \in Sequential :
        /\ WF_vars(\E resp \in Responses : Respond(c, resp))
        /\ WF_vars(Retry(c))

LiveSpec == Spec /\ Fairness

\* --------------------------------------------------- overlapping callers
\* what the backend answers in the runs with two callers and with a view
\* that is torn down: a transport failure, a payload, a client error, a
\* server error
OverlapResponses ==
    { r \in Responses :
        \/ r.net /\ r.message = "Failed to fetch"
        \/ /\ ~r.net
           /\ r.ctype = "application/json"
           /\ r.parses
           /\ r.status \in {200, 404, 503}
           /\ r.detail = Absent
           /\ r.code = Absent }

\* the call the two callers make
OverlapArgs == { a \in CallArgs : a.method = "GET" }

\* execute has no busy guard (lines 25-35): a caller may invoke it while
\* another chain of the instance is running
NextOverlap ==
    \/ \E c \in Chains, a \in OverlapArgs : ExecuteWith(c, a) /\ UNCHANGED pages
    \/ \E c \in Chains, resp \in OverlapResponses : Respond(c, resp)
    \/ \E c \in Chains : Retry(c)

SpecOverlap == Init /\ [][NextOverlap]_vars

\* ------------------------------------------------------- view torn down
\* React unmounts the component that called useApi: the instance has no
\* effect cleanup (lines 12-124), so nothing of the hook runs
Unmount ==
    /\ mounted
    /\ mounted' = FALSE
    /\ UNCHANGED <<hook, chart, site, order>>

\* one caller, whose view may be torn down at any time; a view that is gone
\* makes no further call
NextTeardown ==
    \/ \E c \in Sequential, a \in OverlapArgs :
          mounted /\ ExecuteWith(c, a) /\ UNCHANGED pages
    \/ \E c \in Sequential, resp \in OverlapResponses : Respond(c, resp)
    \/ \E c \in Sequential : Retry(c)
    \/ Unmount

SpecTeardown == Init /\ [][NextTeardown]_vars

\* every request is answered and every retry timer fires
FairnessTeardown ==
    \A c \in Sequential :
        /\ WF_vars(\E resp \in OverlapResponses : Respond(c, resp))
        /\ WF_vars(Retry(c))

LiveTeardown == SpecTeardown /\ FairnessTeardown

\* ------------------------------------------------------------ StockChart
\* StockChart.tsx lines 65-70: the options the chart passes to useApi
ChartMaxRetries == 3

\* the values the props symbol and timeframe take
ChartSymbols == {"AAPL", "MSFT"}

ChartTimeframes == {"1D", "1W"}

\* StockChart.tsx lines 75-80:
\* execute(`/api/stocks/${symbol}/bars`, 'GET', undefined, { timeframe })
ChartArgs(symbol, timeframe) ==
    [url |-> <<"/", symbol>>, method |-> "GET", body |-> NoBody,
     pathParams |-> << [key |-> <<"timeframe">>, value |-> <<timeframe>>] >>]

\* StockChart.tsx line 101: the dependencies of the effect are symbol,
\* timeframe and execute; useApi.ts line 110: execute is a new function
\* whenever retryCount differs (the options of the instance are constants)
EffectDeps == <<chart.symbol, chart.timeframe, retryCount>>

\* what made the dependencies of the effect differ from its last run
Trigger ==
    IF ~chart.ran THEN "mount"
    ELSE IF <<chart.deps[1], chart.deps[2]>> # <<chart.symbol, chart.timeframe>>
    THEN "input"
    ELSE "state"

\* StockChart.tsx lines 72-101: after a render in which a dependency
\* differs, the effect runs fetchData, which calls execute; the effect has
\* no cleanup and does not look at a chain that is still running
RunEffect(c) ==
    /\ mounted
    /\ ~chart.ran \/ chart.deps # EffectDeps
    /\ chart.runs < MaxRuns
    /\ ExecuteWith(c, ChartArgs(chart.symbol, chart.timeframe))
    /\ chart' = [chart EXCEPT !.ran = TRUE, !.runs = @ + 1, !.deps = EffectDeps,
                              !.trigger[c] = Trigger]
    /\ UNCHANGED <<mounted, site, order>>

\* the parent renders the chart with another symbol or timeframe
ChangeInput(symbol, timeframe) ==
    /\ mounted
    /\ <<symbol, timeframe>> # <<chart.symbol, chart.timeframe>>
    /\ chart' = [chart EXCEPT !.symbol = symbol, !.timeframe = timeframe]
    /\ UNCHANGED <<hook, mounted, site, order>>

\* what the backend answers the chart: a transport failure, the bars, a
\* server error
ChartResponses ==
    { r \in OverlapResponses : r.net \/ r.status = 503 \/ r.payload = "P1" }

\* the call of the effect takes the first chain that is not running
FirstIdle(c) ==
    /\ ~Running(c)
    /\ c = "c2" => Running("c1")

ChartInit ==
    /\ maxRetries = ChartMaxRetries
    /\ showLoadingToast = FALSE
    /\ showErrorToast = TRUE
    /\ StateInit
    /\ resolution = NoResolution
    /\ caught = NoCatch

ChartNext ==
    \/ \E c \in Chains : FirstIdle(c) /\ RunEffect(c)
    \/ \E symbol \in ChartSymbols, timeframe \in ChartTimeframes :
          ChangeInput(symbol, timeframe)
    \/ \E c \in Chains, resp \in ChartResponses : Respond(c, resp)
    \/ \E c \in Chains : Retry(c)

ChartSpec == ChartInit /\ [][ChartNext]_vars

\* ------------------------------------------- token cookie and middleware
\* A path is a sequence of pieces: the separator "/", the words the
\* middleware looks for, and "x" for any other run of characters.
PathAtoms == {"/", "dashboard", "trading", "backups", "auth", "login", "register", "x"}

Paths ==
    { p \in UNION { [1..n -> PathAtoms] : n \in 1..MaxPathLen } : p[1] = "/" }

\* String.prototype.startsWith
StartsWith(s, prefix) ==
    /\ Len(s) >= Len(prefix)
    /\ SubSeq(s, 1, Len(prefix)) = prefix

\* the values of the token cookie: none, an empty value, a token
Tokens == {"", "jwt"}

\* !token is false (middleware.ts lines 9 and 14)
Truthy(t) == t \notin {Absent, ""}

\* middleware.ts line 9: the prefixes of the pages that need a token
ProtectedPrefixes ==
    { <<"/", "dashboard">>, <<"/", "trading">>, <<"/", "backups">> }

\* middleware.ts line 14: the prefixes of the pages for visitors
AuthPrefixes ==
    { <<"/", "auth", "/", "login">>, <<"/", "auth", "/", "register">> }

\* variant: a visitor without token is sent to a page that needs one
SignedOutTargetProtected == <<"/", "dashboard">>

\* middleware.ts line 10: new URL('/auth/login', request.url)
SignedOutTarget == <<"/", "auth", "/", "login">>

\* middleware.ts line 15: new URL('/dashboard', request.url)
SignedInTarget == <<"/", "dashboard">>

NoAnswer == [kind |-> "none", to |-> <<>>]

\* NextResponse.next()
PassThrough == [kind |-> "next", to |-> <<>>]

\* NextResponse.redirect(url)
RedirectTo(target) == [kind |-> "redirect", to |-> target]

\* variant: the backups pages are not tested
ProtectedNoBackups(pathname) ==
    \E prefix \in ProtectedPrefixes \ { <<"/", "backups">> } : StartsWith(pathname, prefix)

\* middleware.ts line 9: pathname.startsWith(...) || ...
Protected(pathname) ==
    \E prefix \in ProtectedPrefixes : StartsWith(pathname, prefix)

\* middleware.ts lines 4-19
Middleware(pathname, token) ==
    IF ~Truthy(token) /\ Protected(pathname)
    THEN RedirectTo(SignedOutTarget)
    ELSE IF Truthy(token) /\ (\E prefix \in AuthPrefixes : StartsWith(pathname, prefix))
    THEN RedirectTo(SignedInTarget)
    ELSE PassThrough

\* middleware.ts line 22: the roots of the matcher patterns '/root/:path*'
MatcherRoots ==
    { <<"/", "dashboard">>, <<"/", "trading">>, <<"/", "backups">>, <<"/", "auth">> }

\* ':path*' stands for zero or more segments, each a "/" followed by a
\* non-empty run of characters; a trailing "/" is allowed
SegmentsOrNone(rest) ==
    /\ rest # <<>> => rest[1] = "/"
    /\ \A i \in 1..(Len(rest) - 1) : ~(rest[i] = "/" /\ rest[i + 1] = "/")

\* middleware.ts lines 21-23: the middleware runs for the paths that a
\* pattern of config.matcher matches
Matches(pathname) ==
    \E root \in MatcherRoots :
        /\ StartsWith(pathname, root)
        /\ SegmentsOrNone(SubSeq(pathname, Len(root) + 1, Len(pathname)))

\* the answer to a request: of the middleware where the matcher selects
\* the path, of the router otherwise
Serve(pathname, token) ==
    IF Matches(pathname) THEN Middleware(pathname, token) ELSE PassThrough

\* the controls that log the user out
LogoutControls == {"AuthContext", "layout", "history", "trading"}

\* AuthContext.tsx line 31, layout.tsx line 22, history/page.tsx line 128:
\* deleteCookie('token'); trading/page.tsx lines 220-223 do not touch the
\* cookie
CookieAfterLogout(control, token) ==
    IF control = "trading" THEN token ELSE Absent

\* trading/page.tsx line 221: localStorage.removeItem('token')
StoredAfterLogout(control, stored) ==
    IF control = "trading" THEN Absent ELSE stored

\* a page is on screen: no request is under way
PageLoaded == site.response = NoAnswer

\* AuthContext.tsx lines 25-28: login(token) sets the cookie
Login(token) ==
    /\ PageLoaded
    /\ site' = [site EXCEPT !.token = token, !.logout = "none"]
    /\ UNCHANGED <<hook, mounted, chart, order>>

\* the user, logged in, uses one of the logout controls
Logout(control) ==
    /\ PageLoaded
    /\ Truthy(site.token)
    /\ site' = [site EXCEPT !.token = CookieAfterLogout(control, @),
                            !.stored = StoredAfterLogout(control, @),
                            !.logout = control]
    /\ UNCHANGED <<hook, mounted, chart, order>>

\* the browser requests a path and sends the cookie it holds
Navigate(pathname) ==
    /\ PageLoaded
    /\ site' = [site EXCEPT !.pathname = pathname,
                            !.cookieSent = site.token,
                            !.response = Serve(pathname, site.token),
                            !.redirects = 0]
    /\ UNCHANGED <<hook, mounted, chart, order>>

\* the browser follows a redirect: it requests the target with the cookie
Follow ==
    /\ site.response.kind = "redirect"
    /\ site' = [site EXCEPT !.pathname = site.response.to,
                            !.cookieSent = site.token,
                            !.response = Serve(site.response.to, site.token),
                            !.redirects = Inc(@)]
    /\ UNCHANGED <<hook, mounted, chart, order>>

\* the response that was passed through is rendered: the request is over
Render ==
    /\ site.response = PassThrough
    /\ site' = [site EXCEPT !.pathname = <<>>, !.cookieSent = Absent,
                            !.response = NoAnswer, !.redirects = 0]
    /\ UNCHANGED <<hook, mounted, chart, order>>

AuthInit ==
    /\ maxRetries = MaxMaxRetries
    /\ showLoadingToast = TRUE
    /\ showErrorToast = TRUE
    /\ StateInit
    /\ resolution = NoResolution
    /\ caught = NoCatch

AuthNext ==
    \/ \E token \in Tokens : Login(token)
    \/ \E control \in LogoutControls : Logout(control)
    \/ \E pathname \in Paths : Navigate(pathname)
    \/ Follow
    \/ Render

AuthSpec == AuthInit /\ [][AuthNext]_vars

\* ------------------------------------------- trading page: handleSubmit
\* what the user may have in the order form
OrderSymbols == {"", "AAPL"}

OrderQuantities == {"", "0", "5", "abc"}

OrderTypes == {"buy", "sell"}

\* Number(orderForm.quantity) (trading/page.tsx line 147)
NumberOf(quantity) ==
    CASE quantity = ""  -> [nan |-> FALSE, value |-> 0]
      [] quantity = "0" -> [nan |-> FALSE, value |-> 0]
      [] quantity = "5" -> [nan |-> FALSE, value |-> 5]
      [] OTHER          -> [nan |-> TRUE, value |-> 0]

\* isNaN(quantityNum) || quantityNum <= 0 (line 148)
BadQuantity(quantity) ==
    NumberOf(quantity).nan \/ NumberOf(quantity).value <= 0

\* how a fetch of the page ends: it rejects, or it resolves with a status
\* and possibly a detail in the body
OrderAnswers ==
    { [net |-> TRUE, status |-> NoStatus, detail |-> Absent] }
    \cup { [net |-> FALSE, status |-> 200, detail |-> Absent] }
    \cup { [net |-> FALSE, status |-> st, detail |-> d] :
              st \in {400, 500}, d \in {Absent, "Insufficient funds"} }

\* response.ok
OkAnswer(r) == ~r.net /\ r.status = 200

\* lines 174-181: the error thrown for a place-order response that is not ok
PlaceError(r) ==
    IF r.net THEN <<"Failed to fetch">>
    ELSE <<"Failed to place order: ", ToString(r.status), " - ",
           OrElse(r.detail, "Failed to place order")>>

\* lines 200-207: the error thrown for a positions response that is not ok
PositionsError(r) ==
    IF r.net THEN <<"Failed to fetch">>
    ELSE <<ToString(r.status), ": ", OrElse(r.detail, "Failed to fetch updated positions")>>

\* lines 211-217: the catch block reports the error, finally ends loading
Reported(o, message) ==
    [o EXCEPT !.error = message, !.errorToasts = Inc(@),
              !.submitLoading = FALSE, !.stage = "done"]

\* the user edits the order form while no submission runs
EditForm(symbol, quantity, orderType) ==
    /\ ~order.submitLoading
    /\ order' = [order EXCEPT !.symbol = symbol, !.quantity = quantity,
                              !.orderType = orderType]
    /\ UNCHANGED <<hook, mounted, chart, site>>

\* lines 141-172: handleSubmit up to the place-order request
Submit ==
    /\ ~order.submitLoading
    /\ LET started == [order EXCEPT !.error = <<>>, !.placed = FALSE,
                                    !.errorToasts = 0, !.successToasts = 0]
       IN order' =
            IF BadQuantity(order.quantity)
            THEN [started EXCEPT !.error = <<"Please enter a valid positive quantity.">>,
                                 !.stage = "done"]
            ELSE IF order.symbol = ""
            THEN [started EXCEPT !.error = <<"Please select a symbol.">>,
                                 !.stage = "done"]
            ELSE [started EXCEPT !.submitLoading = TRUE, !.stage = "placing"]
    /\ UNCHANGED <<hook, mounted, chart, site>>

\* lines 174-187: the place-order request ends; on success the order is
\* announced, the form is reset and the balance is requested
PlaceAnswer(r) ==
    /\ order.stage = "placing"
    /\ order' =
         IF OkAnswer(r)
         THEN [order EXCEPT !.placed = TRUE, !.successToasts = Inc(@),
                            !.symbol = "", !.quantity = "", !.orderType = "buy",
                            !.stage = "balance"]
         ELSE Reported(order, PlaceError(r))
    /\ UNCHANGED <<hook, mounted, chart, site>>

\* lines 186-199: the balance request ends; its failure is only logged; the
\* positions are requested
BalanceAnswer(r) ==
    /\ order.stage = "balance"
    /\ order' = [order EXCEPT !.balance = IF OkAnswer(r) THEN "fresh" ELSE @,
                              !.stage = "positions"]
    /\ UNCHANGED <<hook, mounted, chart, site>>

\* lines 200-217: the positions request ends
PositionsAnswer(r) ==
    /\ order.stage = "positions"
    /\ order' =
         IF OkAnswer(r)
         THEN [order EXCEPT !.positions = "fresh", !.submitLoading = FALSE,
                            !.stage = "done"]
         ELSE Reported(order, PositionsError(r))
    /\ UNCHANGED <<hook, mounted, chart, site>>

OrderInit ==
    /\ maxRetries = MaxMaxRetries
    /\ showLoadingToast = TRUE
    /\ showErrorToast = TRUE
    /\ StateInit
    /\ resolution = NoResolution
    /\ caught = NoCatch

OrderNext ==
    \/ \E symbol \in OrderSymbols, quantity \in OrderQuantities, orderType \in OrderTypes :
          EditForm(symbol, quantity, orderType)
    \/ Submit
    \/ \E r \in OrderAnswers : PlaceAnswer(r)
    \/ \E r \in OrderAnswers : BalanceAnswer(r)
    \/ \E r \in OrderAnswers : PositionsAnswer(r)

OrderSpec == OrderInit /\ [][OrderNext]_vars

\* ------------------------------------------------ URL resolution on its own
\* lines 37-43 applied to one target and one pathParams
Resolve ==
    /\ ~resolution.done
    /\ resolution' = [resolution EXCEPT
                         !.url = ResolveUrl(resolution.target, resolution.params),
                         !.done = TRUE]
    /\ UNCHANGED <<pages, options, data, isLoading, error, retryCount, pc, closure,
                   args, sent, first, loadingToastId, toast, toastText, leaked, errorToasts, apiError,
                   result, requests, delays, all503, sawNonJson200, caught,
                   lastIssued, lastSettled>>

UrlInit ==
    /\ maxRetries = MaxMaxRetries
    /\ showLoadingToast = TRUE
    /\ showErrorToast = TRUE
    /\ StateInit
    /\ caught = NoCatch
    /\ resolution \in { [target |-> t, params |-> p, url |-> t, done |-> FALSE] :
                           t \in Strings(MaxUrlLen), p \in PathParams }

UrlNext == Resolve

UrlSpec == UrlInit /\ [][UrlNext]_vars

\* --------------------------------------------- response handling on its own
\* lines 59-73 applied to one response
Catch ==
    /\ ~caught.done
    /\ caught' = [caught EXCEPT !.error = Thrown(caught.resp), !.done = TRUE]
    /\ UNCHANGED <<pages, options, data, isLoading, error, retryCount, pc, closure,
                   args, sent, first, loadingToastId, toast, toastText, leaked,
                   errorToasts, apiError, result, requests, delays, all503,
                   sawNonJson200, resolution, lastIssued, lastSettled>>

ErrorInit ==
    /\ maxRetries = MaxMaxRetries
    /\ showLoadingToast = TRUE
    /\ showErrorToast = TRUE
    /\ StateInit
    /\ resolution = NoResolution
    /\ caught \in { [resp |-> r, error |-> NoError, done |-> FALSE] : r \in Responses }

ErrorNext == Catch

ErrorSpec == ErrorInit /\ [][ErrorNext]_vars

\* ---------------------------------------------------------------- claims

Settled(c) == pc[c] = "done"

Raised(c) == Settled(c) /\ result[c].kind = "err"

Returned(c) == Settled(c) /\ result[c].kind = "ok"

Is4xx(e) == e.status >= 400 /\ e.status <= 499

\* C1: a chain whose every attempt is answered with a 503 never issues more
\* than maxRetries + 1 requests, and when it settles it has raised the error
\* after exactly maxRetries + 1 requests and maxRetries waits of retryDelay.
C1_Exactly503 ==
    \A c \in Chains :
        (all503[c] /\ requests[c] > 0) =>
            /\ requests[c] <= maxRetries + 1
            /\ Settled(c) => /\ Raised(c)
                             /\ requests[c] = maxRetries + 1
                             /\ delays[c] = maxRetries

\* C2: when every request is answered and every timer fires, every chain
\* that was started eventually settles.
C2_Settles == \A c \in Chains : Running(c) ~> Settled(c)

\* C3: whatever the failures, a chain issues at most maxRetries + 1 requests.
C3_RetryBound == \A c \in Chains : requests[c] <= maxRetries + 1

\* C4: an invocation that catches an HTTP error with a 4xx status settles
\* in the same turn by raising that error: no wait is started, no further
\* request is issued and retryCount keeps its value.
C4_NoRetryOn4xx ==
    [][\A c \in Chains :
         (pc[c] = "fetch" /\ pc'[c] # "fetch" /\ Is4xx(apiError'[c])) =>
            /\ pc'[c] = "done"
            /\ result'[c] = [kind |-> "err", payload |-> NoData, error |-> apiError'[c]]
            /\ requests'[c] = requests[c]
            /\ delays'[c] = delays[c]
            /\ retryCount' = retryCount]_vars

\* C4 witness: a 4xx raised after exactly one request, with retry budget left
C4_Witness ==
    /\ Raised("c1")
    /\ Is4xx(result["c1"].error)
    /\ requests["c1"] = 1
    /\ delays["c1"] = 0
    /\ closure["c1"] < maxRetries

\* C5: after a chain returned a payload, retryCount is 0, error is null and
\* data is the payload returned.
C5_SuccessState ==
    \A c \in Chains :
        Returned(c) =>
            /\ retryCount = 0
            /\ error = NoError
            /\ data = result[c].payload

\* C5 witness: success after at least one automatic retry
C5_Witness ==
    /\ Returned("c1")
    /\ delays["c1"] >= 1
    /\ data = result["c1"].payload
    /\ data # NoData

\* C6: the invocation that receives a 200 without JSON content type settles
\* in the same turn by raising InvalidFormat, and data is not written.
C6_InvalidFormatSurfaced ==
    [][\A c \in Chains :
         (~sawNonJson200[c] /\ sawNonJson200'[c]) =>
            /\ pc'[c] = "done"
            /\ result'[c] = [kind |-> "err", payload |-> NoData, error |-> InvalidFormat]
            /\ data' = data]_vars

\* C7: every invocation has the full retry budget: a chain that raised a
\* retryable failure did so only after maxRetries retries.
C7_BudgetPerCall ==
    \A c \in Chains :
        (Raised(c) /\ Retryable(result[c].error)) => requests[c] >= maxRetries + 1

\* C8: once a chain has settled, isLoading is false.
C8_SettledNotLoading == \A c \in Chains : Settled(c) => ~isLoading

\* C8 witness: a chain that raised after its final retry attempt
C8_Witness ==
    /\ Raised("c1")
    /\ delays["c1"] >= 1
    /\ ~isLoading

\* C9: with showLoadingToast enabled, after the chain settled none of the
\* notifications it opened is still in the loading state.
C9_NoLoadingLeft ==
    \A c \in Chains :
        (showLoadingToast /\ Settled(c)) => (toast[c] # "loading" /\ leaked[c] = 0)

\* C10: with showErrorToast disabled and showLoadingToast enabled, a chain
\* that raised a non-retryable error has dismissed its loading notification
\* and has produced no error notification.
C10_SilentDismiss ==
    \A c \in Chains :
        (showLoadingToast /\ ~showErrorToast /\ Raised(c) /\ ~Retryable(result[c].error)) =>
            /\ toast[c] = "dismissed"
            /\ leaked[c] = 0
            /\ errorToasts[c] = 0

\* C10 witness: such a chain, its notification dismissed
C10_Witness ==
    /\ showLoadingToast
    /\ ~showErrorToast
    /\ Raised("c1")
    /\ ~Retryable(result["c1"].error)
    /\ toast["c1"] = "dismissed"

\* C11: with showErrorToast enabled, when a chain has raised, the
\* notification of the failing invocation (its loading notification when it
\* had one) is an error notification that shows the failure's message, or
\* 'An error occurred' when the failure has no message.
C11_ErrorToastText ==
    \A c \in Chains :
        (showErrorToast /\ Raised(c)) =>
            /\ toast[c] = "error"
            /\ toastText[c] = IF result[c].error.message \in {Absent, ""}
                              THEN "An error occurred"
                              ELSE result[c].error.message

\* C11 witness: a loading notification converted, showing the server's detail
C11_Witness ==
    /\ showErrorToast
    /\ showLoadingToast
    /\ Raised("c1")
    /\ loadingToastId["c1"]
    /\ toast["c1"] = "error"
    /\ toastText["c1"] = "Bad request"

\* C12: when a chain has raised, state.error is the error the caller received.
C12_ErrorInState == \A c \in Chains : Raised(c) => error = result[c].error

\* C12 witness: a chain that raised after a retry
C12_Witness ==
    /\ Raised("c1")
    /\ delays["c1"] >= 1
    /\ error = result["c1"].error
    /\ error # NoError

\* the name of the placeholder whose ':' is at position i - 1: the longest
\* run of name characters from position i
RECURSIVE NameAt(_, _)
NameAt(s, i) ==
    IF i > Len(s) \/ s[i] \notin NameChars THEN <<>>
    ELSE <<s[i]>> \o NameAt(s, i + 1)

HasKey(entries, name) == \E k \in 1..Len(entries) : entries[k].key = name

ValueOf(entries, name) ==
    entries[CHOOSE k \in 1..Len(entries) : entries[k].key = name].value

\* the target with every placeholder that has a substitution replaced by
\* its value and every other character left as it is
RECURSIVE Substituted(_, _, _)
Substituted(s, entries, i) ==
    IF i > Len(s) THEN <<>>
    ELSE IF s[i] = ":" /\ HasKey(entries, NameAt(s, i + 1))
         THEN ValueOf(entries, NameAt(s, i + 1))
              \o Substituted(s, entries, i + 1 + Len(NameAt(s, i + 1)))
         ELSE <<s[i]>> \o Substituted(s, entries, i + 1)

\* C13: the resolved URL is the target with every occurrence of every
\* placeholder that has a substitution replaced by its value, and the
\* placeholders without substitution left as literal text.
C13_EveryPlaceholder ==
    resolution.done =>
        resolution.url = Substituted(resolution.target, resolution.params, 1)

\* C18: every request a chain sends, on the first attempt and on every
\* automatic retry, is the request of its first attempt: same resolved
\* target, method and body.
C18_SameRequest ==
    \A c \in Chains :
        requests[c] >= 1 => (sent[c] = first[c] /\ sent[c] = Request(args[c]))

\* C18 witness: a retry of a call with a path substitution has been sent
C18_Witness ==
    /\ requests["c1"] >= 2
    /\ pc["c1"] = "fetch"
    /\ args["c1"].pathParams # <<>>
    /\ sent["c1"] = first["c1"]
    /\ sent["c1"].url = <<"/", "1">>

\* a failure at network level: a promise of the fetch API rejected (fetch
\* itself, or the reading of the body), so no response could be used
IsNetworkFailure(e) ==
    e.status = NoStatus /\ (e.message \in RejectionMessages \/ e = ParseError)

\* C15: an invocation starts a retry wait only for a network-level failure
\* or an HTTP error with status >= 500; every other failure is not retried.
C15_RetryClasses ==
    [][\A c \in Chains :
         (pc[c] = "fetch" /\ pc'[c] = "delay") =>
            (IsNetworkFailure(apiError'[c]) \/ apiError'[c].status >= 500)]_vars

\* C17: with showErrorToast enabled, a chain that has raised has produced
\* exactly one error notification, and a chain that has not raised (still
\* retrying, or returned) has produced none.
C17_OneErrorToast ==
    \A c \in Chains :
        showErrorToast =>
            /\ Raised(c) => errorToasts[c] = 1
            /\ ~Raised(c) => errorToasts[c] = 0

\* C17 witness: a chain raised after retried failures, one notification
C17_Witness ==
    /\ showErrorToast
    /\ Raised("c1")
    /\ delays["c1"] >= 2
    /\ errorToasts["c1"] = 1

\* C19: data is written only by an invocation that returns its payload; no
\* step of a failing call (start, retried failure, retry, terminal failure)
\* changes it.
C19_DataOnlyOnSuccess ==
    [][data' # data =>
         \E c \in Chains :
            /\ pc[c] = "fetch"
            /\ pc'[c] = "done"
            /\ result'[c].kind = "ok"
            /\ data' = result'[c].payload]_vars

\* C19 witness: a call failed after a retry and data still is the payload
\* of an earlier successful call
C19_Witness ==
    /\ Raised("c1")
    /\ delays["c1"] >= 1
    /\ data # NoData

IsHttpFailure(resp) ==
    ~resp.net /\ IncludesJson(resp.ctype) /\ resp.parses /\ ~Ok(resp)

\* C20: for a non-2xx response with a JSON body the error raised has the
\* HTTP status, the body's detail as message ('An error occurred' when it
\* is missing or empty) and the body's code ('UNKNOWN_ERROR' when it is
\* missing or empty).
C20_StructuredError ==
    (caught.done /\ IsHttpFailure(caught.resp)) =>
        /\ caught.error.status = caught.resp.status
        /\ caught.error.message = IF caught.resp.detail \in {Absent, ""}
                                  THEN "An error occurred" ELSE caught.resp.detail
        /\ caught.error.code = IF caught.resp.code \in {Absent, ""}
                               THEN "UNKNOWN_ERROR" ELSE caught.resp.code

\* C20 witness: a 404 with an empty detail and no code has been handled
C20_Witness ==
    /\ caught.done
    /\ IsHttpFailure(caught.resp)
    /\ caught.resp.status = 404
    /\ caught.resp.detail = ""
    /\ caught.resp.code = Absent
    /\ caught.error.message = "An error occurred"
    /\ caught.error.code = "UNKNOWN_ERROR"

\* C14: at most one chain of the instance is running at any time.
C14_OneInFlight == Cardinality({c \in Chains : Running(c)}) <= 1

BothSettled == \A c \in Chains : Settled(c)

\* the write to isLoading of a chain that settles
FirstSettlerClearsLoading ==
    [][\A c \in Chains : (pc[c] = "fetch" /\ pc'[c] = "done") => ~isLoading']_vars

C22_LoadingWhileRunning ==
    \A c \in Sequential : Running(c) => isLoading

\* C23: with showLoadingToast on, one chain never has more than one loading
\* notification open at a time, for either value of showErrorToast.
C23_OneLoadingToast ==
    \A c \in Sequential :
        showLoadingToast =>
            leaked[c] + (IF toast[c] = "loading" THEN 1 ELSE 0) <= 1

\* C21: a chain is never cancelled.  When the view is torn down while the
\* chain waits for a response or for a retry delay, the response is still
\* handled (state and notifications are written) and the retry is still
\* issued.
C21_NeverCancelled ==
    \A c \in Sequential :
        /\ (~mounted /\ pc[c] = "delay") ~> (pc[c] = "fetch")
        /\ (~mounted /\ pc[c] = "fetch") ~> (pc[c] \in {"delay", "done"})

\* the view is gone and a retry request of its chain is outstanding
C21_Witness ==
    \E c \in Sequential :
        /\ ~mounted
        /\ pc[c] = "fetch"
        /\ requests[c] >= 2

\* C24: StockChart starts a chain on mount and when symbol or timeframe
\* changes, and at no other time: a state update of a running chain (the
\* increment or the reset of retryCount) never makes the effect start
\* another chain.
C24_EffectOnInputsOnly ==
    \A c \in Chains : chart.trigger[c] \in {"none", "mount", "input"}

\* C25: after a logout through any logout control, the token cookie is
\* absent, so that the middleware sends every later request for a protected
\* page to /auth/login.
C25_LogoutClearsCookie ==
    site.logout # "none" => site.token = Absent

\* the request that was answered last asked for a page under /dashboard,
\* /trading or /backups
AskedProtected ==
    /\ site.response # NoAnswer
    /\ \E prefix \in { <<"/", "dashboard">>, <<"/", "trading">>, <<"/", "backups">> } :
           StartsWith(site.pathname, prefix)

\* C26 as stated: every request whose path starts with /dashboard, /trading
\* or /backups and that carries no token, or an empty one, is redirected to
\* /auth/login and never passed through.
C26_EveryProtectedPath ==
    (AskedProtected /\ site.cookieSent \in {Absent, ""})
        => site.response = RedirectTo(<<"/", "auth", "/", "login">>)

\* C26 amended: every request that config.matcher selects, whose path
\* starts with /dashboard, /trading or /backups and that carries no token,
\* or an empty one, is redirected to /auth/login and never passed through.
C26_MatchedProtectedPath ==
    (AskedProtected /\ Matches(site.pathname) /\ site.cookieSent \in {Absent, ""})
        => site.response = RedirectTo(<<"/", "auth", "/", "login">>)

\* a request for a page below /backups with an empty token was redirected
C26_Witness ==
    /\ site.pathname = <<"/", "backups", "/", "x">>
    /\ site.cookieSent = ""
    /\ site.redirects = 0
    /\ site.response = RedirectTo(<<"/", "auth", "/", "login">>)

\* C27: with the cookie unchanged, following the redirects of the
\* middleware never loops: the target of a redirect is passed through, so a
\* navigation is redirected at most once.
C27_AtMostOneRedirect ==
    /\ site.redirects <= 1
    /\ site.redirects = 1 => site.response = PassThrough

\* a redirect was followed and its target was passed through
C27_Witness ==
    /\ site.redirects = 1
    /\ site.response = PassThrough
    /\ site.pathname \in { <<"/", "auth", "/", "login">>, <<"/", "dashboard">> }

\* C28: on the trading page handleSubmit reports a failure, as error state
\* or as error notification, only if the order was not placed: once the
\* place-order request succeeded no error is shown, whatever the refreshes
\* of balance and positions do.
C28_ErrorOnlyIfNotPlaced ==
    order.placed => (order.error = <<>> /\ order.errorToasts = 0)

====
